---------------------------- MODULE Spec2Model ----------------------------
(***************************************************************************)
(* The local event log of the agents repository (shared/db.py) and the     *)
(* tool functions built on it.  Text is a sequence of one-character        *)
(* strings, so that formatting, serialisation and pattern matching are     *)
(* computed character by character.  An optional value (Python None) is    *)
(* the empty sequence, a present value x is <<x>>.                         *)
(***************************************************************************)
EXTENDS Integers, Sequences, FiniteSets, TLC

VARIABLES tables, journals, playlists, agent_responses, sqlite_sequence,
          clock, last_op, last_par, last_raised, last_ret,
          procs, write_lock, done, fs

vars == <<tables, journals, playlists, agent_responses, sqlite_sequence,
          clock, last_op, last_par, last_raised, last_ret,
          procs, write_lock, done, fs>>

(***************************************************************************)
(* Bounds of the model.                                                    *)
(***************************************************************************)
MaxRows == 3
MaxJournals == 3
MaxPlaylists == 2
MaxMemTurns == 11
MaxOtherTurns == 1
MaxClock == 1
MaxCalls == 3

(***************************************************************************)
(* Text helpers.                                                           *)
(***************************************************************************)
Min(a, b) == IF a < b THEN a ELSE b

Max(a, b) == IF a < b THEN b ELSE a

None == <<>>

Some(x) == <<x>>

UpperChars == <<"A","B","C","D","E","F","G","H","I","J","K","L","M",
                "N","O","P","Q","R","S","T","U","V","W","X","Y","Z">>

LowerChars == <<"a","b","c","d","e","f","g","h","i","j","k","l","m",
                "n","o","p","q","r","s","t","u","v","w","x","y","z">>

Digits == <<"0","1","2","3","4","5","6","7","8","9">>

\* ASCII case folding of one character (SQLite's LIKE folds ASCII only).
Lower(c) ==
    IF \E i \in 1..Len(UpperChars) : UpperChars[i] = c
    THEN LowerChars[CHOOSE i \in 1..Len(UpperChars) : UpperChars[i] = c]
    ELSE c

\* Python's `needle in hay` for strings: a literal, case-sensitive substring.
Contains(needle, hay) ==
    \E i \in 0..(Len(hay) - Len(needle)) :
        SubSeq(hay, i + 1, i + Len(needle)) = needle

\* str(n) for an integer n.
RECURSIVE NatToStr(_)
NatToStr(n) ==
    IF n < 10 THEN <<Digits[n + 1]>>
    ELSE NatToStr(n \div 10) \o <<Digits[(n % 10) + 1]>>

IntToStr(n) == IF n < 0 THEN <<"-">> \o NatToStr(-n) ELSE NatToStr(n)

\* sep.join(parts)
RECURSIVE Join(_, _)
Join(sep, parts) ==
    IF parts = <<>> THEN <<>>
    ELSE IF Len(parts) = 1 THEN parts[1]
    ELSE parts[1] \o sep \o Join(sep, Tail(parts))

(***************************************************************************)
(* Python values a caller may hand over as a limit, and int() of them.     *)
(***************************************************************************)
PyInt(n) == <<"int", n>>

PyStr(s) == <<"str", s>>

IsDigit(c) == \E i \in 1..Len(Digits) : Digits[i] = c

DigitValue(c) == (CHOOSE i \in 1..Len(Digits) : Digits[i] = c) - 1

RECURSIVE StrToNat(_)
StrToNat(ds) ==
    IF ds = <<>> THEN 0
    ELSE StrToNat(SubSeq(ds, 1, Len(ds) - 1)) * 10 + DigitValue(ds[Len(ds)])

Whitespace == {" ", "\n", "\t"}

\* s.strip()
RECURSIVE Strip(_)
Strip(s) ==
    IF s = <<>> THEN s
    ELSE IF s[1] \in Whitespace THEN Strip(Tail(s))
    ELSE IF s[Len(s)] \in Whitespace THEN Strip(SubSeq(s, 1, Len(s) - 1))
    ELSE s

\* int(x): an int is itself; a str is parsed as an optionally signed run of
\* decimal digits with surrounding whitespace allowed, and anything else in
\* a str raises ValueError.
int(x) ==
    IF x[1] = "int" THEN [raised |-> FALSE, val |-> x[2]]
    ELSE LET s      == Strip(x[2])
             signed == s # <<>> /\ s[1] \in {"+", "-"}
             ds     == IF signed THEN Tail(s) ELSE s
         IN  IF ds # <<>> /\ \A i \in 1..Len(ds) : IsDigit(ds[i])
             THEN [raised |-> FALSE,
                   val |-> IF signed /\ s[1] = "-" THEN 0 - StrToNat(ds)
                           ELSE StrToNat(ds)]
             ELSE [raised |-> TRUE, val |-> 0]

(***************************************************************************)
(* json.dumps of None or of a list of strings (default separators          *)
(* ", "), and json.loads of such a text.                                   *)
(***************************************************************************)
RECURSIVE JsonEscape(_)
JsonEscape(s) ==
    IF s = <<>> THEN <<>>
    ELSE (CASE Head(s) = "\"" -> <<"\\", "\"">>
            [] Head(s) = "\\" -> <<"\\", "\\">>
            [] Head(s) = "\n" -> <<"\\", "n">>
            [] OTHER -> <<Head(s)>>) \o JsonEscape(Tail(s))

JsonString(s) == <<"\"">> \o JsonEscape(s) \o <<"\"">>

RECURSIVE JsonStrings(_)
JsonStrings(items) ==
    IF items = <<>> THEN <<>>
    ELSE <<JsonString(Head(items))>> \o JsonStrings(Tail(items))

JsonDumpsList(items) ==
    <<"[">> \o Join(<<",", " ">>, JsonStrings(items)) \o <<"]">>

\* opt is None or Some(list of strings)
JsonDumps(opt) ==
    IF opt = None THEN <<"n","u","l","l">> ELSE JsonDumpsList(opt[1])

\* Reads a JSON string whose opening quote is before position i.
RECURSIVE JsonReadString(_, _, _)
JsonReadString(cs, i, acc) ==
    IF cs[i] = "\"" THEN [val |-> acc, next |-> i + 1]
    ELSE IF cs[i] = "\\"
         THEN JsonReadString(cs, i + 2,
                  Append(acc, IF cs[i + 1] = "n" THEN "\n" ELSE cs[i + 1]))
         ELSE JsonReadString(cs, i + 1, Append(acc, cs[i]))

RECURSIVE JsonReadList(_, _, _)
JsonReadList(cs, i, acc) ==
    IF cs[i] = "]" THEN acc
    ELSE IF cs[i] = "\""
         THEN LET r == JsonReadString(cs, i + 1, <<>>)
              IN  JsonReadList(cs, r.next, Append(acc, r.val))
         ELSE JsonReadList(cs, i + 1, acc)

JsonLoadsList(cs) == JsonReadList(cs, 2, <<>>)

(***************************************************************************)
(* The storage engine: tables, AUTOINCREMENT keys, LIKE, ORDER BY, LIMIT.  *)
(***************************************************************************)
AllTables == {"journals", "playlists", "agent_responses"}

\* The data file as a connection sees it.  busy says that another
\* connection holds the write lock, so that a statement that writes fails
\* with "database is locked".
DB == [tables |-> tables, journals |-> journals, playlists |-> playlists,
       agent_responses |-> agent_responses,
       sqlite_sequence |-> sqlite_sequence, busy |-> FALSE]

\* CREATE TABLE t, without IF NOT EXISTS: an error when t exists.
CreateTable(db, t) ==
    [db |-> [db EXCEPT !.tables = @ \cup {t}], raised |-> t \in db.tables]

\* CREATE TABLE IF NOT EXISTS t: a no-op when t exists, never an error.
CreateTableIfNotExists(db, t) ==
    [db |-> [db EXCEPT !.tables = @ \cup {t}], raised |-> FALSE]

RECURSIVE MaxId(_)
MaxId(rows) ==
    IF rows = <<>> THEN 0 ELSE Max(Head(rows).id, MaxId(Tail(rows)))

\* a key generator that hands out the largest key again
AutoIncrementNoStep(db, t) == Max(db.sqlite_sequence[t], MaxId(db[t]))

\* INTEGER PRIMARY KEY AUTOINCREMENT: one more than the largest key the
\* table ever held.
AutoIncrement(db, t) == Max(db.sqlite_sequence[t], MaxId(db[t])) + 1

\* INSERT OR IGNORE under a uniqueness constraint over the content columns:
\* a row whose content is already stored is not inserted again.
InsertRowUnique(db, t, fields, now) ==
    IF t \notin db.tables \/ db.busy
    THEN [db |-> db, raised |-> TRUE]
    ELSE IF \E k \in 1..Len(db[t]) :
                [f \in DOMAIN fields |-> db[t][k][f]] = fields
    THEN [db |-> db, raised |-> FALSE]
    ELSE LET id  == Max(db.sqlite_sequence[t], MaxId(db[t])) + 1
             row == [id |-> id, created_at |-> now] @@ fields
         IN  [db |-> [db EXCEPT ![t] = Append(@, row),
                                !.sqlite_sequence[t] = id],
              raised |-> FALSE]

\* INSERT INTO t (...) VALUES (...), with created_at DEFAULT CURRENT_TIMESTAMP
InsertRow(db, t, fields, now) ==
    IF t \notin db.tables \/ db.busy
    THEN [db |-> db, raised |-> TRUE]
    ELSE LET id  == AutoIncrement(db, t)
             row == [id |-> id, created_at |-> now] @@ fields
         IN  [db |-> [db EXCEPT ![t] = Append(@, row),
                                !.sqlite_sequence[t] = id],
              raised |-> FALSE]

RemoveAt(s, i) == SubSeq(s, 1, i - 1) \o SubSeq(s, i + 1, Len(s))

\* ORDER BY id DESC
RECURSIVE OrderByIdDesc(_)
OrderByIdDesc(rows) ==
    IF rows = <<>> THEN <<>>
    ELSE LET i == CHOOSE i \in 1..Len(rows) :
                      \A j \in 1..Len(rows) : rows[j].id <= rows[i].id
         IN  <<rows[i]>> \o OrderByIdDesc(RemoveAt(rows, i))

\* LIMIT n read as an index: one row too many.
LimitInclusive(rows, n) ==
    IF n < 0 THEN rows ELSE SubSeq(rows, 1, Min(n + 1, Len(rows)))

\* LIMIT n: a negative n is no limit at all.
Limit(rows, n) ==
    IF n < 0 THEN rows ELSE SubSeq(rows, 1, Min(n, Len(rows)))

\* LIKE with PRAGMA case_sensitive_like: no case folding
RECURSIVE LikeCaseSensitive(_, _)
LikeCaseSensitive(text, pattern) ==
    IF pattern = <<>> THEN text = <<>>
    ELSE IF Head(pattern) = "%"
         THEN LikeCaseSensitive(text, Tail(pattern))
              \/ (text # <<>> /\ LikeCaseSensitive(Tail(text), pattern))
    ELSE IF text = <<>> THEN FALSE
    ELSE IF Head(pattern) = "_"
         THEN LikeCaseSensitive(Tail(text), Tail(pattern))
    ELSE Head(text) = Head(pattern)
         /\ LikeCaseSensitive(Tail(text), Tail(pattern))

\* text LIKE pattern: % is any run of characters, _ any one character,
\* other characters compare with ASCII case folded.
RECURSIVE Like(_, _)
Like(text, pattern) ==
    IF pattern = <<>> THEN text = <<>>
    ELSE IF Head(pattern) = "%"
         THEN Like(text, Tail(pattern))
              \/ (text # <<>> /\ Like(Tail(text), pattern))
    ELSE IF text = <<>> THEN FALSE
    ELSE IF Head(pattern) = "_" THEN Like(Tail(text), Tail(pattern))
    ELSE Lower(Head(text)) = Lower(Head(pattern))
         /\ Like(Tail(text), Tail(pattern))

RECURSIVE Reverse(_)
Reverse(s) == IF s = <<>> THEN <<>> ELSE Reverse(Tail(s)) \o <<Head(s)>>

\* the rows a cursor fetches: one tuple of the selected columns per record
JournalTuple(r) == <<r.id, r.agent, r.entry, r.tags, r.created_at>>

RECURSIVE JournalTuples(_)
JournalTuples(rows) ==
    IF rows = <<>> THEN <<>>
    ELSE <<JournalTuple(Head(rows))>> \o JournalTuples(Tail(rows))

PlaylistTuple(r) == <<r.id, r.name, r.items, r.created_at>>

RECURSIVE PlaylistTuples(_)
PlaylistTuples(rows) ==
    IF rows = <<>> THEN <<>>
    ELSE <<PlaylistTuple(Head(rows))>> \o PlaylistTuples(Tail(rows))

ResponseTuple(r) ==
    <<r.id, r.user_message, r.agent_response, r.session_id, r.created_at>>

RECURSIVE ResponseTuples(_)
ResponseTuples(rows) ==
    IF rows = <<>> THEN <<>>
    ELSE <<ResponseTuple(Head(rows))>> \o ResponseTuples(Tail(rows))

(***************************************************************************)
(* shared/db.py.  Every operation takes the database value and returns the *)
(* database after it, what it returns, and whether it raised.              *)
(***************************************************************************)
Raise(db) == [db |-> db, ret |-> <<>>, raised |-> TRUE]

Return(db, ret) == [db |-> db, ret |-> ret, raised |-> FALSE]

init_db(db) ==
    LET r1 == CreateTableIfNotExists(db, "journals")
        r2 == CreateTableIfNotExists(r1.db, "playlists")
        r3 == CreateTableIfNotExists(r2.db, "agent_responses")
    IN  IF r1.raised THEN Raise(r1.db)
        ELSE IF r2.raised THEN Raise(r2.db)
        ELSE IF r3.raised THEN Raise(r3.db)
        ELSE Return(r3.db, <<>>)

\* SELECT ... FROM t WHERE ... ORDER BY id DESC LIMIT limit; fetchall(),
\* where matching are the records of t that satisfy the WHERE clause
SelectDesc(db, t, matching, limit) ==
    IF t \notin db.tables THEN Raise(db)
    ELSE Return(db, Limit(OrderByIdDesc(matching), limit))

save_journal(db, now, agent, entry, tags) ==
    LET i == init_db(db)
        r == InsertRow(i.db, "journals",
                 [agent |-> agent, entry |-> entry, tags |-> JsonDumps(tags)],
                 now)
    IN  IF i.raised THEN Raise(i.db)
        ELSE IF r.raised THEN Raise(r.db)
        ELSE Return(r.db, [status |-> "ok"])

list_journals(db, limit) ==
    LET i == init_db(db)
        q == SelectDesc(i.db, "journals", i.db.journals, limit)
    IN  IF i.raised THEN Raise(i.db)
        ELSE IF q.raised THEN Raise(q.db)
        ELSE Return(q.db, JournalTuples(q.ret))

\* get_journals_by_agent without its WHERE clause
get_journals_by_agent_unfiltered(db, agent_name, limit) ==
    LET i == init_db(db)
        q == SelectDesc(i.db, "journals", i.db.journals, limit)
    IN  IF i.raised THEN Raise(i.db)
        ELSE IF q.raised THEN Raise(q.db)
        ELSE Return(q.db, JournalTuples(q.ret))

get_journals_by_agent(db, agent_name, limit) ==
    LET i == init_db(db)
        q == SelectDesc(i.db, "journals",
                 SelectSeq(i.db.journals, LAMBDA r : r.agent = agent_name),
                 limit)
    IN  IF i.raised THEN Raise(i.db)
        ELSE IF q.raised THEN Raise(q.db)
        ELSE Return(q.db, JournalTuples(q.ret))

search_journals(db, search_term, limit) ==
    LET i == init_db(db)
        pattern == <<"%">> \o search_term \o <<"%">>
        q == SelectDesc(i.db, "journals",
                 SelectSeq(i.db.journals,
                     LAMBDA r : Like(r.entry, pattern) \/ Like(r.tags, pattern)),
                 limit)
    IN  IF i.raised THEN Raise(i.db)
        ELSE IF q.raised THEN Raise(q.db)
        ELSE Return(q.db, JournalTuples(q.ret))

save_playlist(db, now, name, items) ==
    LET i == init_db(db)
        r == InsertRow(i.db, "playlists",
                 [name |-> name, items |-> JsonDumpsList(items)], now)
    IN  IF i.raised THEN Raise(i.db)
        ELSE IF r.raised THEN Raise(r.db)
        ELSE Return(r.db, [status |-> "ok"])

\* list_playlists with ORDER BY id ASC
list_playlists_oldest_first(db, limit) ==
    LET i == init_db(db)
    IN  IF i.raised THEN Raise(i.db)
        ELSE Return(i.db,
                 PlaylistTuples(
                        Limit(Reverse(OrderByIdDesc(i.db.playlists)), limit)))

list_playlists(db, limit) ==
    LET i == init_db(db)
        q == SelectDesc(i.db, "playlists", i.db.playlists, limit)
    IN  IF i.raised THEN Raise(i.db)
        ELSE IF q.raised THEN Raise(q.db)
        ELSE Return(q.db, PlaylistTuples(q.ret))

save_agent_response(db, now, agent, user_message, agent_response, session_id) ==
    LET i == init_db(db)
        r == InsertRow(i.db, "agent_responses",
                 [agent |-> agent, user_message |-> user_message,
                  agent_response |-> agent_response,
                  session_id |-> session_id], now)
    IN  IF i.raised THEN Raise(i.db)
        ELSE IF r.raised THEN Raise(r.db)
        ELSE Return(r.db, [status |-> "ok"])

\* get_agent_memory without the final reversal: newest first.
get_agent_memory_newest_first(db, agent_name, limit) ==
    LET i == init_db(db)
        q == SelectDesc(i.db, "agent_responses",
                 SelectSeq(i.db.agent_responses,
                     LAMBDA r : r.agent = agent_name),
                 limit)
    IN  IF i.raised THEN Raise(i.db)
        ELSE IF q.raised THEN Raise(q.db)
        ELSE Return(q.db, ResponseTuples(q.ret))

\* get_agent_memory without its WHERE clause: the turns of every owner.
get_agent_memory_all_owners(db, agent_name, limit) ==
    LET i == init_db(db)
        q == SelectDesc(i.db, "agent_responses", i.db.agent_responses, limit)
    IN  IF i.raised THEN Raise(i.db)
        ELSE IF q.raised THEN Raise(q.db)
        ELSE Return(q.db, Reverse(ResponseTuples(q.ret)))

get_agent_memory(db, agent_name, limit) ==
    LET i == init_db(db)
        q == SelectDesc(i.db, "agent_responses",
                 SelectSeq(i.db.agent_responses,
                     LAMBDA r : r.agent = agent_name),
                 limit)
    IN  IF i.raised THEN Raise(i.db)
        ELSE IF q.raised THEN Raise(q.db)
        ELSE Return(q.db, Reverse(ResponseTuples(q.ret)))

\* ConversationDict with the two message columns exchanged.
ConversationDictSwapped(row) ==
    [id |-> row[1], user_message |-> row[3], agent_response |-> row[2],
     session_id |-> row[4], created_at |-> row[5]]

ConversationDict(row) ==
    [id |-> row[1], user_message |-> row[2], agent_response |-> row[3],
     session_id |-> row[4], created_at |-> row[5]]

RECURSIVE ConversationDicts(_)
ConversationDicts(memory_rows) ==
    IF memory_rows = <<>> THEN <<>>
    ELSE <<ConversationDict(Head(memory_rows))>>
         \o ConversationDicts(Tail(memory_rows))

get_recent_conversations(db, agent_name, limit) ==
    LET m == get_agent_memory(db, agent_name, limit)
    IN  IF m.raised THEN Raise(m.db)
        ELSE Return(m.db, ConversationDicts(m.ret))

NoHistory ==
    <<"N","o"," ","p","r","e","v","i","o","u","s"," ","c","o","n","v","e","r",
      "s","a","t","i","o","n"," ","h","i","s","t","o","r","y",".">>

HistoryHeader ==
    <<"R","e","c","e","n","t"," ","c","o","n","v","e","r","s","a","t","i","o",
      "n"," ","h","i","s","t","o","r","y",":">>

RECURSIVE ContextParts(_)
ContextParts(conversations) ==
    IF conversations = <<>> THEN <<>>
    ELSE << <<"U","s","e","r",":"," ">> \o Head(conversations).user_message,
            <<"Y","o","u",":"," ">> \o Head(conversations).agent_response,
            <<"-","-","-">> >> \o ContextParts(Tail(conversations))

\* format_memory_for_context without the test for an empty history.
format_memory_for_context_no_sentinel(db, agent_name, limit) ==
    LET c == get_recent_conversations(db, agent_name, limit)
    IN  IF c.raised THEN Raise(c.db)
        ELSE Return(c.db,
                 Join(<<"\n">>, <<HistoryHeader>> \o ContextParts(c.ret)))

format_memory_for_context(db, agent_name, limit) ==
    LET c == get_recent_conversations(db, agent_name, limit)
    IN  IF c.raised THEN Raise(c.db)
        ELSE IF c.ret = <<>> THEN Return(c.db, NoHistory)
        ELSE Return(c.db,
                 Join(<<"\n">>, <<HistoryHeader>> \o ContextParts(c.ret)))

MemoryLimitMin == 1

MemoryLimitMax == 10

\* get_memory with the lower clamp only.
get_memory_no_upper_clamp(db, agent_name, limit) ==
    LET n == int(limit)
        l == Max(MemoryLimitMin, n.val)
        c == get_recent_conversations(db, agent_name, l)
        f == format_memory_for_context(c.db, agent_name, l)
    IN  IF n.raised THEN Raise(db)
        ELSE IF c.raised THEN Raise(c.db)
        ELSE IF f.raised THEN Raise(f.db)
        ELSE Return(f.db,
                 [status |-> "success", conversations |-> c.ret,
                  count |-> Len(c.ret), formatted_context |-> f.ret])

\* get_memory_tool(agent_name) is the closure get_memory; limit is the
\* Python value the caller passed, an int or a str.
get_memory(db, agent_name, limit) ==
    LET n == int(limit)
        l == Max(MemoryLimitMin, Min(MemoryLimitMax, n.val))
        c == get_recent_conversations(db, agent_name, l)
        f == format_memory_for_context(c.db, agent_name, l)
    IN  IF n.raised THEN Raise(db)
        ELSE IF c.raised THEN Raise(c.db)
        ELSE IF f.raised THEN Raise(f.db)
        ELSE Return(f.db,
                 [status |-> "success", conversations |-> c.ret,
                  count |-> Len(c.ret), formatted_context |-> f.ret])

\* get_memory with the store as its two reads find it: db at the read of
\* conversations, later at the read inside format_memory_for_context.
get_memory_reads(db, later, agent_name, limit) ==
    LET n == int(limit)
        l == Max(MemoryLimitMin, Min(MemoryLimitMax, n.val))
        c == get_recent_conversations(db, agent_name, l)
        f == format_memory_for_context(later, agent_name, l)
    IN  IF n.raised THEN Raise(db)
        ELSE IF c.raised THEN Raise(c.db)
        ELSE IF f.raised THEN Raise(f.db)
        ELSE Return(f.db,
                 [status |-> "success", conversations |-> c.ret,
                  count |-> Len(c.ret), formatted_context |-> f.ret])

(***************************************************************************)
(* project_manager_agent/agent.py                                          *)
(***************************************************************************)
\* s.split(sep) for a one-character separator
RECURSIVE SplitFrom(_, _, _)
SplitFrom(s, sep, cur) ==
    IF s = <<>> THEN <<cur>>
    ELSE IF Head(s) = sep THEN <<cur>> \o SplitFrom(Tail(s), sep, <<>>)
    ELSE SplitFrom(Tail(s), sep, Append(cur, Head(s)))

Split(s, sep) == SplitFrom(s, sep, <<>>)

\* s.lower()
RECURSIVE LowerStr(_)
LowerStr(s) ==
    IF s = <<>> THEN <<>> ELSE <<Lower(Head(s))>> \o LowerStr(Tail(s))

StrTask == <<"t","a","s","k">>

StrUpdate == <<"u","p","d","a","t","e">>

StrPending == <<"p","e","n","d","i","n","g">>

add_task(db, now, task_description, due_date, priority, tags) ==
    LET task_data == [description |-> task_description,
                      due_date |-> due_date,
                      priority |-> LowerStr(priority),
                      status |-> StrPending,
                      created_at |-> now]
        tag_list == (IF tags # <<>> THEN Split(tags, ",") ELSE <<>>)
                    \o <<StrTask, LowerStr(priority)>>
        task_entry == <<"T","A","S","K",":"," ">> \o task_description
                      \o <<"\n","D","U","E",":"," ">> \o due_date
                      \o <<"\n","P","R","I","O","R","I","T","Y",":"," ">>
                      \o priority
                      \o <<"\n","S","T","A","T","U","S",":"," ">>
                      \o StrPending
        s == save_journal(db, now, "project_manager", task_entry,
                          Some(tag_list))
    IN  IF s.raised THEN Raise(s.db)
        ELSE Return(s.db,
                 [status |-> "success",
                  message |-> <<"T","a","s","k"," ","a","d","d","e","d",":",
                                " ">> \o task_description,
                  task_data |-> task_data])

\* update_task_status rewriting the task's row instead of appending one
update_task_status_in_place(db, now, task_id, new_status) ==
    LET i == init_db(db)
        Rewrite(r) == IF r.id = task_id
                      THEN [r EXCEPT !.entry = @ \o <<" ">> \o new_status]
                      ELSE r
    IN  IF i.raised THEN Raise(i.db)
        ELSE Return([i.db EXCEPT !.journals =
                        [k \in 1..Len(@) |-> Rewrite(@[k])]],
                 [status |-> "success",
                  message |-> <<"T","a","s","k"," ">> \o IntToStr(task_id),
                  task_id |-> task_id,
                  new_status |-> new_status])

update_task_status(db, now, task_id, new_status) ==
    LET status_update ==
            <<"T","A","S","K","_","U","P","D","A","T","E",":"," ","T","a",
              "s","k"," ","I","D"," ">> \o IntToStr(task_id)
            \o <<" ","s","t","a","t","u","s"," ","c","h","a","n","g","e","d",
                 " ","t","o"," ">> \o new_status
        s == save_journal(db, now, "project_manager", status_update,
                          Some(<<StrTask, StrUpdate, new_status>>))
    IN  IF s.raised THEN Raise(s.db)
        ELSE Return(s.db,
                 [status |-> "success",
                  message |-> <<"T","a","s","k"," ">> \o IntToStr(task_id)
                              \o <<" ","s","t","a","t","u","s"," ","u","p",
                                   "d","a","t","e","d"," ","t","o"," ">>
                              \o new_status,
                  task_id |-> task_id,
                  new_status |-> new_status])

StrAll == <<"a","l","l">>

TaskLimitMin == 1

TaskLimitMax == 100

TaskInfo(row) ==
    [id |-> row[1], entry |-> row[3], created_at |-> row[5], tags |-> row[4]]

RECURSIVE TaskInfos(_)
TaskInfos(rows) ==
    IF rows = <<>> THEN <<>>
    ELSE <<TaskInfo(Head(rows))>> \o TaskInfos(Tail(rows))

\* limit is the Python value the caller passed, an int or a str.
list_tasks(db, status, limit) ==
    LET n == int(limit)
        l == Max(TaskLimitMin, Min(TaskLimitMax, n.val))
        history == list_journals(db, l)
        tasks == TaskInfos(SelectSeq(history.ret,
                     LAMBDA row :
                        /\ row[2] = "project_manager"
                        /\ Contains(<<"T","A","S","K",":">>, row[3])
                        /\ \/ status = StrAll
                           \/ Contains(LowerStr(status), LowerStr(row[3]))))
    IN  IF n.raised THEN Raise(db)
        ELSE IF history.raised THEN Raise(history.db)
        ELSE Return(history.db,
                 [status |-> "success", tasks |-> tasks,
                  count |-> Len(tasks), filter |-> status])

(***************************************************************************)
(* coding_agent/agent.py                                                   *)
(***************************************************************************)
StrSnippet == <<"s","n","i","p","p","e","t">>

save_code_snippet(db, now, title, code, language, tags) ==
    LET tag_list == (IF tags # <<>> THEN Split(tags, ",") ELSE <<>>)
                    \o <<StrSnippet, language>>
        snippet_entry == <<"T","I","T","L","E",":"," ">> \o title
                         \o <<"\n","L","A","N","G","U","A","G","E",":"," ">>
                         \o language
                         \o <<"\n","C","O","D","E",":","\n">> \o code
        s == save_journal(db, now, "coding_agent", snippet_entry,
                          Some(tag_list))
    IN  IF s.raised THEN Raise(s.db)
        ELSE Return(s.db,
                 [status |-> "saved", title |-> title, language |-> language])

HistoryLimitMin == 1

HistoryLimitMax == 50

HistoryItem(row) ==
    [id |-> row[1], entry |-> row[3], tags |-> row[4], created_at |-> row[5]]

RECURSIVE HistoryItems(_)
HistoryItems(rows) ==
    IF rows = <<>> THEN <<>>
    ELSE <<HistoryItem(Head(rows))>> \o HistoryItems(Tail(rows))

\* limit is the Python value the caller passed, an int or a str.
get_coding_history(db, limit) ==
    LET n == int(limit)
        l == Max(HistoryLimitMin, Min(HistoryLimitMax, n.val))
        history == list_journals(db, l)
        coding_history ==
            HistoryItems(SelectSeq(history.ret,
                LAMBDA row : row[2] = "coding_agent"))
    IN  IF n.raised THEN Raise(db)
        ELSE IF history.raised THEN Raise(history.db)
        ELSE Return(history.db,
                 [status |-> "success", history |-> coding_history,
                  count |-> Len(coding_history)])

(***************************************************************************)
(* learning_coach_agent/agent.py                                           *)
(***************************************************************************)
journal(db, now, entry, tags) ==
    LET tag_list == IF tags # <<>> THEN Some(Split(tags, ",")) ELSE None
        s == save_journal(db, now, "learning_coach", entry, tag_list)
    IN  IF s.raised THEN Raise(s.db)
        ELSE Return(s.db, [status |-> "saved", entry |-> entry])

(***************************************************************************)
(* content_creator_agent/agent.py                                          *)
(***************************************************************************)
Upper(c) ==
    IF \E i \in 1..Len(LowerChars) : LowerChars[i] = c
    THEN UpperChars[CHOOSE i \in 1..Len(LowerChars) : LowerChars[i] = c]
    ELSE c

IsLetter(c) == Upper(c) # c \/ Lower(c) # c

\* s.title(): a letter that follows no letter is upper-cased, every other
\* letter lower-cased; inword says that the character before s was a letter
RECURSIVE TitleFrom(_, _)
TitleFrom(s, inword) ==
    IF s = <<>> THEN <<>>
    ELSE <<IF inword THEN Lower(Head(s)) ELSE Upper(Head(s))>>
         \o TitleFrom(Tail(s), IsLetter(Head(s)))

Title(s) == TitleFrom(s, FALSE)

\* the same item n times
RECURSIVE Repeat(_, _)
Repeat(item, n) == IF n <= 0 THEN <<>> ELSE <<item>> \o Repeat(item, n - 1)

\* the song titles of the genres from the i-th on, each per times
RECURSIVE SongsFrom(_, _, _)
SongsFrom(gs, i, per) ==
    IF i > Len(gs) THEN <<>>
    ELSE Repeat(Title(Strip(gs[i])) \o <<" ","S","o","n","g"," ">>
                \o IntToStr(i), per)
         \o SongsFrom(gs, i + 1, per)

\* s[:n]
Slice(s, n) ==
    IF n >= 0 THEN SubSeq(s, 1, Min(n, Len(s)))
    ELSE SubSeq(s, 1, Len(s) + n)

\* length is the Python value the caller passed, an int or a str; a str
\* passes int() when numeric and then fails as the bound of the slice.
make_playlist(db, now, genres, length) ==
    LET n == int(length)
        gs == Split(genres, ",")
        per == Max(1, n.val \div Max(1, Len(gs)))
        items == Slice(SongsFrom(gs, 1, per), n.val)
        s == save_playlist(db, now,
                 <<"P","l","a","y","l","i","s","t"," ","(">> \o genres
                 \o <<")">>, items)
    IN  IF n.raised \/ length[1] # "int" THEN Raise(db)
        ELSE IF s.raised THEN Raise(s.db)
        ELSE Return(s.db, [status |-> "success", playlist |-> items])

(***************************************************************************)
(* adk_agents_project/adk_multi_agents_scaffold.py.  fs is the working     *)
(* folder: what is found at each path the generator touches.  A content    *)
(* is <<"template", relpath>> for the text FILES holds for relpath and     *)
(* <<"user", relpath>> for any other text somebody put there.              *)
(***************************************************************************)
Absent == [kind |-> "absent", content |-> <<>>]

Dir == [kind |-> "dir", content |-> <<>>]

File(content) == [kind |-> "file", content |-> content]

Template(relpath) == <<"template", relpath>>

UserText(relpath) == <<"user", relpath>>

\* ROOT is the working directory, always a directory.
ROOT == "."

\* The FILES dict in its insertion order, each key with its path.parent.
FILES ==
    << [relpath |-> "requirements.txt", parent |-> ROOT,
        content |-> Template("requirements.txt")],
       [relpath |-> ".env.sample", parent |-> ROOT,
        content |-> Template(".env.sample")],
       [relpath |-> "shared/db.py", parent |-> "shared",
        content |-> Template("shared/db.py")],
       [relpath |-> "learning_coach_agent/__init__.py",
        parent |-> "learning_coach_agent",
        content |-> Template("learning_coach_agent/__init__.py")],
       [relpath |-> "learning_coach_agent/agent.py",
        parent |-> "learning_coach_agent",
        content |-> Template("learning_coach_agent/agent.py")],
       [relpath |-> "content_creator_agent/__init__.py",
        parent |-> "content_creator_agent",
        content |-> Template("content_creator_agent/__init__.py")],
       [relpath |-> "content_creator_agent/agent.py",
        parent |-> "content_creator_agent",
        content |-> Template("content_creator_agent/agent.py")],
       [relpath |-> "run_instructions.txt", parent |-> ROOT,
        content |-> Template("run_instructions.txt")] >>

FilePaths == {FILES[i].relpath : i \in 1..Len(FILES)}

ParentPaths == {FILES[i].parent : i \in 1..Len(FILES)} \ {ROOT}

ParentOf(relpath) ==
    FILES[CHOOSE i \in 1..Len(FILES) : FILES[i].relpath = relpath].parent

EmptyFolder == [p \in FilePaths \cup ParentPaths |-> Absent]

\* path.exists()
Exists(folder, path) == path = ROOT \/ folder[path].kind # "absent"

\* path.parent.mkdir(parents=True, exist_ok=True): FileExistsError when the
\* name is taken by something that is not a directory.
Mkdir(folder, path) ==
    IF path = ROOT \/ folder[path].kind = "dir"
    THEN [fs |-> folder, raised |-> FALSE]
    ELSE IF folder[path].kind = "absent"
    THEN [fs |-> [folder EXCEPT ![path] = Dir], raised |-> FALSE]
    ELSE [fs |-> folder, raised |-> TRUE]

\* open(path, "w") and f.write(content)
OpenWrite(folder, path, content) == [folder EXCEPT ![path] = File(content)]

\* One turn of the loop with the exists() test left out.
WriteOneAlways(folder, f) ==
    LET m == Mkdir(folder, f.parent)
    IN  IF m.raised THEN m
        ELSE [fs |-> OpenWrite(m.fs, f.relpath, f.content), raised |-> FALSE]

\* One turn of the loop of write_files.
WriteOne(folder, f) ==
    LET m == Mkdir(folder, f.parent)
    IN  IF m.raised THEN m
        ELSE IF Exists(m.fs, f.relpath) THEN m
        ELSE [fs |-> OpenWrite(m.fs, f.relpath, f.content), raised |-> FALSE]

RECURSIVE WriteFrom(_, _)
WriteFrom(folder, i) ==
    IF i > Len(FILES) THEN [fs |-> folder, raised |-> FALSE]
    ELSE LET r == WriteOne(folder, FILES[i])
         IN  IF r.raised THEN r ELSE WriteFrom(r.fs, i + 1)

write_files(folder) == WriteFrom(folder, 1)

(***************************************************************************)
(* The state machine.  A fresh data file holds no table.  last_op,         *)
(* last_par, last_raised and last_ret record the latest call: its name,    *)
(* its parameters, whether it raised and what it returned.                 *)
(***************************************************************************)
\* the independent processes that use the data file
Procs == {1, 2}

\* a process that is in no call
IdleProc ==
    [pc |-> "idle", op |-> "none", par |-> <<>>, k |-> 0, began |-> 0,
     table |-> "none", row |-> <<>>, ret |-> <<>>, conns |-> 0,
     seen |-> <<>>]

InitStore ==
    /\ tables = {}
    /\ journals = <<>>
    /\ playlists = <<>>
    /\ agent_responses = <<>>
    /\ sqlite_sequence = [t \in AllTables |-> 0]
    /\ clock = 0
    /\ last_op = "none"
    /\ last_par = <<>>
    /\ last_raised = FALSE
    /\ last_ret = <<>>
    /\ procs = [p \in Procs |-> IdleProc]
    /\ write_lock = 0
    /\ done = <<>>

Init == InitStore /\ fs = EmptyFolder

Commit(r, op, par) ==
    /\ tables' = r.db.tables
    /\ journals' = r.db.journals
    /\ playlists' = r.db.playlists
    /\ agent_responses' = r.db.agent_responses
    /\ sqlite_sequence' = r.db.sqlite_sequence
    /\ last_op' = op
    /\ last_par' = par
    /\ last_raised' = r.raised
    /\ last_ret' = r.ret
    /\ UNCHANGED <<procs, write_lock, done, fs>>

CallInitDb ==
    /\ Commit(init_db(DB), "init_db", <<>>)
    /\ UNCHANGED clock

SaveJournal(agent, entry, tags, now) ==
    /\ Commit(save_journal(DB, now, agent, entry, tags), "save_journal",
              <<agent, entry, tags>>)
    /\ clock' = now

ListJournals(limit) ==
    /\ Commit(list_journals(DB, limit), "list_journals", <<limit>>)
    /\ UNCHANGED clock

GetJournalsByAgent(agent_name, limit) ==
    /\ Commit(get_journals_by_agent(DB, agent_name, limit),
              "get_journals_by_agent", <<agent_name, limit>>)
    /\ UNCHANGED clock

SearchJournals(search_term, limit) ==
    /\ Commit(search_journals(DB, search_term, limit), "search_journals",
              <<search_term, limit>>)
    /\ UNCHANGED clock

SavePlaylist(name, items, now) ==
    /\ Commit(save_playlist(DB, now, name, items), "save_playlist",
              <<name, items>>)
    /\ clock' = now

ListPlaylists(limit) ==
    /\ Commit(list_playlists(DB, limit), "list_playlists", <<limit>>)
    /\ UNCHANGED clock

SaveAgentResponse(agent, user_message, agent_response, session_id, now) ==
    /\ Commit(save_agent_response(DB, now, agent, user_message,
                                  agent_response, session_id),
              "save_agent_response",
              <<agent, user_message, agent_response, session_id>>)
    /\ clock' = now

GetAgentMemory(agent_name, limit) ==
    /\ Commit(get_agent_memory(DB, agent_name, limit), "get_agent_memory",
              <<agent_name, limit>>)
    /\ UNCHANGED clock

GetRecentConversations(agent_name, limit) ==
    /\ Commit(get_recent_conversations(DB, agent_name, limit),
              "get_recent_conversations", <<agent_name, limit>>)
    /\ UNCHANGED clock

FormatMemoryForContext(agent_name, limit) ==
    /\ Commit(format_memory_for_context(DB, agent_name, limit),
              "format_memory_for_context", <<agent_name, limit>>)
    /\ UNCHANGED clock

GetMemory(agent_name, limit) ==
    /\ Commit(get_memory(DB, agent_name, limit), "get_memory",
              <<agent_name, limit>>)
    /\ UNCHANGED clock

AddTask(task_description, due_date, priority, tags, now) ==
    /\ Commit(add_task(DB, now, task_description, due_date, priority, tags),
              "add_task", <<task_description, due_date, priority, tags>>)
    /\ clock' = now

UpdateTaskStatus(task_id, new_status, now) ==
    /\ Commit(update_task_status(DB, now, task_id, new_status),
              "update_task_status", <<task_id, new_status>>)
    /\ clock' = now

ListTasks(status, limit) ==
    /\ Commit(list_tasks(DB, status, limit), "list_tasks", <<status, limit>>)
    /\ UNCHANGED clock

SaveCodeSnippet(title, code, language, tags, now) ==
    /\ Commit(save_code_snippet(DB, now, title, code, language, tags),
              "save_code_snippet", <<title, code, language, tags>>)
    /\ clock' = now

GetCodingHistory(limit) ==
    /\ Commit(get_coding_history(DB, limit), "get_coding_history", <<limit>>)
    /\ UNCHANGED clock

Journal(entry, tags, now) ==
    /\ Commit(journal(DB, now, entry, tags), "journal", <<entry, tags>>)
    /\ clock' = now

MakePlaylist(genres, length, now) ==
    /\ Commit(make_playlist(DB, now, genres, length), "make_playlist",
              <<genres, length>>)
    /\ clock' = now

(***************************************************************************)
(* The same calls statement by statement, run by independent processes    *)
(* on one data file.  A statement is atomic; between the INSERT and the    *)
(* commit of a call its connection holds the write lock of the file.       *)
(* procs[p] is the position of process p in its call, write_lock the       *)
(* process holding the write lock (0 for none), done the calls that have   *)
(* returned or raised, in that order.                                      *)
(***************************************************************************)
\* the CREATE TABLE statements of init_db, in their order
TableOrder == <<"journals", "playlists", "agent_responses">>

\* an engine without a write lock: an INSERT never has to wait
NoReservedLock(lock) == TRUE

\* the write lock can be taken: no other connection holds it
ReservedLockFree(lock) == lock = 0

\* the handler of a call, as the process runs it on the data file db
StoreCall(op, par, db, now) ==
    IF op = "save_journal"
    THEN save_journal(db, now, par[1], par[2], par[3])
    ELSE IF op = "save_playlist"
    THEN save_playlist(db, now, par[1], par[2])
    ELSE IF op = "save_agent_response"
    THEN save_agent_response(db, now, par[1], par[2], par[3], par[4])
    ELSE IF op = "add_task"
    THEN add_task(db, now, par[1], par[2], par[3], par[4])
    ELSE IF op = "update_task_status"
    THEN update_task_status(db, now, par[1], par[2])
    ELSE IF op = "journal"
    THEN journal(db, now, par[1], par[2])
    ELSE IF op = "save_code_snippet"
    THEN save_code_snippet(db, now, par[1], par[2], par[3], par[4])
    ELSE IF op = "make_playlist"
    THEN make_playlist(db, now, par[1], par[2])
    ELSE init_db(db)

\* the call of process p ends: it returned ret or raised error, with open
\* connections of its own still open
Finish(p, raised, error, ret, open) ==
    /\ last_op' = procs[p].op
    /\ last_par' = procs[p].par
    /\ last_raised' = raised
    /\ last_ret' = ret
    /\ done' = Append(done,
                  [proc |-> p, op |-> procs[p].op, began |-> procs[p].began,
                   raised |-> raised, error |-> error,
                   table |-> procs[p].table, row |-> procs[p].row,
                   open |-> open])
    /\ procs' = [procs EXCEPT ![p] = IdleProc]

\* process p enters a call: init_db connects
BeginCall(p, op, par) ==
    /\ procs[p].pc = "idle"
    /\ procs' = [procs EXCEPT ![p] =
                    [IdleProc EXCEPT !.pc = "create", !.op = op, !.par = par,
                                     !.k = 1, !.began = Len(done),
                                     !.conns = 1]]
    /\ UNCHANGED <<tables, journals, playlists, agent_responses,
                   sqlite_sequence, clock, fs, last_op, last_par, last_raised,
                   last_ret, write_lock, done>>

\* the next CREATE TABLE IF NOT EXISTS of init_db; after the third, init_db
\* commits and closes, and init_db called on its own returns
CreateStep(p) ==
    /\ procs[p].pc = "create"
    /\ LET r == CreateTableIfNotExists(DB, TableOrder[procs[p].k])
       IN  /\ tables' = r.db.tables
           /\ IF r.raised
              THEN Finish(p, TRUE, "table already exists", <<>>, 1)
              ELSE IF procs[p].k < Len(TableOrder)
              THEN /\ procs' = [procs EXCEPT ![p].k = @ + 1]
                   /\ UNCHANGED <<last_op, last_par, last_raised, last_ret,
                                  done>>
              ELSE IF procs[p].op = "init_db"
              THEN Finish(p, FALSE, "", <<>>, 0)
              ELSE /\ procs' = [procs EXCEPT
                                ![p].pc = IF procs[p].op = "get_memory"
                                          THEN "select" ELSE "insert",
                                ![p].conns = 0]
                   /\ UNCHANGED <<last_op, last_par, last_raised, last_ret,
                                  done>>
    /\ UNCHANGED <<journals, playlists, agent_responses, sqlite_sequence,
                   clock, fs, write_lock>>

\* the table of db that has a row more than the data file
GrownTable(db) == CHOOSE t \in AllTables : Len(db[t]) > Len(DB[t])

\* the call connects and runs its INSERT, which takes the write lock: the
\* new row is in the transaction of the connection, not yet in the file
ExecuteInsert(p) ==
    /\ procs[p].pc = "insert"
    /\ ReservedLockFree(write_lock)
    /\ LET r == StoreCall(procs[p].op, procs[p].par, DB, clock)
           t == GrownTable(r.db)
       IN  procs' = [procs EXCEPT ![p].pc = "commit", ![p].table = t,
                                  ![p].row = r.db[t][Len(r.db[t])],
                                  ![p].ret = r.ret, ![p].conns = 1]
    /\ write_lock' = p
    /\ UNCHANGED <<tables, journals, playlists, agent_responses,
                   sqlite_sequence, clock, fs, last_op, last_par, last_raised,
                   last_ret, done>>

\* the call connects and runs its INSERT while another connection holds
\* the write lock, and the busy timeout runs out: the handler sees
\* "database is locked"
ExecuteLocked(p) ==
    /\ procs[p].pc = "insert"
    /\ ~ReservedLockFree(write_lock)
    /\ LET r == StoreCall(procs[p].op, procs[p].par,
                          [DB EXCEPT !.busy = TRUE], clock)
       IN  Finish(p, r.raised, "database is locked", r.ret, 1)
    /\ UNCHANGED <<tables, journals, playlists, agent_responses,
                   sqlite_sequence, clock, fs, write_lock>>

\* conn.commit(): the row of the transaction goes to the file and the
\* write lock is released
CommitInsert(p) ==
    /\ procs[p].pc = "commit"
    /\ LET t == procs[p].table
           row == procs[p].row
       IN  /\ journals' = IF t = "journals" THEN Append(journals, row)
                          ELSE journals
           /\ playlists' = IF t = "playlists" THEN Append(playlists, row)
                           ELSE playlists
           /\ agent_responses' = IF t = "agent_responses"
                                 THEN Append(agent_responses, row)
                                 ELSE agent_responses
           /\ sqlite_sequence' = [sqlite_sequence EXCEPT ![t] = row.id]
    /\ write_lock' = IF write_lock = p THEN 0 ELSE write_lock
    /\ procs' = [procs EXCEPT ![p].pc = "close"]
    /\ UNCHANGED <<tables, clock, fs, last_op, last_par, last_raised, last_ret,
                   done>>

\* conn.close() and the return of the handler
CloseReturn(p) ==
    /\ procs[p].pc = "close"
    /\ Finish(p, FALSE, "", procs[p].ret, 0)
    /\ UNCHANGED <<tables, journals, playlists, agent_responses,
                   sqlite_sequence, clock, fs, write_lock>>

\* get_memory reads conversations: the process keeps what the store held
ReadConversations(p) ==
    /\ procs[p].pc = "select"
    /\ procs' = [procs EXCEPT ![p].pc = "format", ![p].seen = DB]
    /\ UNCHANGED <<tables, journals, playlists, agent_responses,
                   sqlite_sequence, clock, fs, last_op, last_par, last_raised,
                   last_ret, write_lock, done>>

\* get_memory reads the store again inside format_memory_for_context and
\* returns
FormatContext(p) ==
    /\ procs[p].pc = "format"
    /\ LET r == get_memory_reads(procs[p].seen, DB, procs[p].par[1],
                                 procs[p].par[2])
       IN  Finish(p, r.raised, "", r.ret, 0)
    /\ UNCHANGED <<tables, journals, playlists, agent_responses,
                   sqlite_sequence, clock, fs, write_lock>>

(***************************************************************************)
(* Inputs.                                                                 *)
(***************************************************************************)
SeqsUpTo(S, n) == UNION {[1..k -> S] : k \in 0..n}

Times == clock..MaxClock

TotalRows == Len(journals) + Len(playlists) + Len(agent_responses)

TurnsOf(agent) == Len(SelectSeq(agent_responses, LAMBDA r : r.agent = agent))

\* journal rows to append: <<agent, entry, tags>>
JournalInputs ==
    { <<"A", <<"a","b">>, None>>,
      <<"A", <<"x","A","B","y">>, Some(<< <<"t">> >>)>>,
      <<"B", <<"c","_","d">>, Some(<< <<"a","%">>, <<"q">> >>)>>,
      <<"a", <<"z">>, Some(<< <<"A","b">> >>)>> }

SearchTerms ==
    { <<"a","b">>, <<"A","B">>, <<"%">>, <<"_">>, <<"n","u">>, <<"w">> }

ItemStrings == { <<"a">>, <<"b","\"",","," ","\\">> }

MaxItems == 2

PlaylistNames == { <<"X">>, <<"Y">> }

MemoryLimits == {-1, 0, 3, 999}

(***************************************************************************)
(* The whole program: every operation, over a few rows.                    *)
(***************************************************************************)
Next ==
    \/ CallInitDb
    \/ /\ TotalRows < MaxRows
       /\ \E now \in Times :
            \/ SaveJournal("A", <<"n","o","t","e">>, None, now)
            \/ AddTask(<<"f","i","x">>, <<>>, <<"H","i","g","h">>,
                       <<"x",",","y">>, now)
            \/ UpdateTaskStatus(1, <<"d","o","n","e">>, now)
            \/ SavePlaylist(<<"X">>, << <<"a">>, <<"b">> >>, now)
            \/ SaveAgentResponse("A", <<"h","i">>, <<"y","o">>,
                                 Some(<<"s">>), now)
    \/ ListJournals(20)
    \/ GetJournalsByAgent("project_manager", 20)
    \/ SearchJournals(<<"t","a","s","k">>, 20)
    \/ ListPlaylists(20)
    \/ GetAgentMemory("A", 5)
    \/ GetRecentConversations("A", 5)
    \/ FormatMemoryForContext("A", 5)
    \/ GetMemory("A", PyInt(5))

Spec == Init /\ [][Next]_vars

(***************************************************************************)
(* The journal table alone, with texts that differ in case and that hold   *)
(* the characters LIKE treats as wildcards.                                *)
(***************************************************************************)
NextJournal ==
    \/ /\ Len(journals) < MaxJournals
       /\ \E j \in JournalInputs : SaveJournal(j[1], j[2], j[3], clock)
    \/ ListJournals(20)
    \/ \E agent_name \in {"A", "B", "a"} :
            GetJournalsByAgent(agent_name, Len(journals))
    \/ GetJournalsByAgent("A", 1)
    \/ \E search_term \in SearchTerms : \E limit \in {1, 20} :
            SearchJournals(search_term, limit)

SpecJournal == Init /\ [][NextJournal]_vars

(***************************************************************************)
(* The playlist table alone, over item lists whose strings hold the        *)
(* characters the serialisation escapes or uses as separators.             *)
(***************************************************************************)
NextPlaylist ==
    \/ /\ Len(playlists) < MaxPlaylists
       /\ \E name \in PlaylistNames : \E items \in SeqsUpTo(ItemStrings, MaxItems) :
            SavePlaylist(name, items, clock)
    \/ \E limit \in {1, 20} : ListPlaylists(limit)

SpecPlaylist == Init /\ [][NextPlaylist]_vars

(***************************************************************************)
(* The conversation memory alone: owner "A" past the upper clamp of        *)
(* get_memory, owner "B" interleaved, owner "C" never written.             *)
(***************************************************************************)
NextMemory ==
    \/ /\ TurnsOf("A") < MaxMemTurns
       /\ SaveAgentResponse("A", <<"h","i">>, <<"y","o">>, Some(<<"s">>),
                            clock)
    \/ /\ TurnsOf("B") < MaxOtherTurns
       /\ SaveAgentResponse("B", <<"q">>, <<"r">>, None, clock)
    \/ \E limit \in MemoryLimits :
            \/ \E agent_name \in {"A", "B", "C"} :
                    GetAgentMemory(agent_name, limit)
            \/ GetRecentConversations("A", limit)
            \/ \E agent_name \in {"A", "C"} :
                    \/ FormatMemoryForContext(agent_name, limit)
                    \/ GetMemory(agent_name, PyInt(limit))

SpecMemory == Init /\ [][NextMemory]_vars

ListLimits == {1, 2, 20}

(***************************************************************************)
(* The two listings side by side: journals and playlists appended in any   *)
(* order and listed with limits below, at and above the table size.        *)
(***************************************************************************)
NextLists ==
    \/ /\ TotalRows < MaxRows
       /\ \E j \in JournalInputs : SaveJournal(j[1], j[2], j[3], clock)
    \/ /\ TotalRows < MaxRows
       /\ \E name \in PlaylistNames :
            SavePlaylist(name, << <<"a">> >>, clock)
    \/ \E limit \in ListLimits : ListJournals(limit)
    \/ \E limit \in ListLimits : ListPlaylists(limit)

SpecLists == Init /\ [][NextLists]_vars

StrDone == <<"d","o","n","e">>

TaskFilters == {StrAll, StrPending, StrDone}

\* limits as a caller may pass them: in range, above the range, a numeric
\* string and a string that is no number
ToolLimits ==
    {PyInt(1), PyInt(999), PyStr(<<"2">>), PyStr(<<"a","b","c">>)}

(***************************************************************************)
(* The tool functions of the agents over the journal and memory tables.    *)
(***************************************************************************)
NextTools ==
    \/ /\ TotalRows < MaxRows
       /\ \/ AddTask(<<"f","i","x">>, <<>>, <<"H","i","g","h">>, <<"x">>,
                     clock)
          \/ UpdateTaskStatus(1, StrDone, clock)
          \/ SaveCodeSnippet(<<"t">>, <<"c">>, <<"p","y">>, <<>>, clock)
          \/ Journal(<<"e">>, <<"a",",","b">>, clock)
          \/ SaveAgentResponse("A", <<"h","i">>, <<"y","o">>, None, clock)
          \/ \E length \in {PyInt(3), PyInt(-1), PyStr(<<"2">>)} :
                MakePlaylist(<<"r","o","c","k",","," ","l","o"," ","f","i">>,
                             length, clock)
    \/ \E status \in TaskFilters : \E limit \in ToolLimits :
            ListTasks(status, limit)
    \/ \E limit \in ToolLimits : GetCodingHistory(limit)
    \/ \E limit \in ToolLimits : GetMemory("A", limit)

SpecTools == Init /\ [][NextTools]_vars

\* calls in progress
Active == {p \in Procs : procs[p].pc # "idle"}

\* the calls the processes make: <<name, parameters>>
ProcessCalls ==
    { <<"init_db", <<>> >>,
      <<"save_journal", <<"A", <<"n">>, None>> >>,
      <<"save_agent_response", <<"A", <<"h","i">>, <<"y","o">>, None>> >>,
      <<"add_task", << <<"f","i","x">>, <<>>, <<"l","o","w">>, <<>> >> >> }

(***************************************************************************)
(* Independent processes calling into one data file at the same time.      *)
(***************************************************************************)
NextProcesses ==
    \E p \in Procs :
        \/ /\ Len(done) + Cardinality(Active) < MaxCalls
           /\ \E c \in ProcessCalls : BeginCall(p, c[1], c[2])
        \/ CreateStep(p)
        \/ ExecuteInsert(p)
        \/ ExecuteLocked(p)
        \/ CommitInsert(p)
        \/ CloseReturn(p)

SpecProcesses == Init /\ [][NextProcesses]_vars

\* the calls of the processes that share one owner's conversation memory
MemoryCalls ==
    { <<"save_agent_response", <<"A", <<"h","i">>, <<"y","o">>, None>> >>,
      <<"get_memory", <<"A", PyInt(3)>> >> }

(***************************************************************************)
(* Processes appending to and reading one owner's conversation memory at   *)
(* the same time.                                                          *)
(***************************************************************************)
NextMemoryProcesses ==
    \E p \in Procs :
        \/ /\ Len(done) + Cardinality(Active) < MaxCalls
           /\ \E c \in MemoryCalls : BeginCall(p, c[1], c[2])
        \/ CreateStep(p)
        \/ ExecuteInsert(p)
        \/ ExecuteLocked(p)
        \/ CommitInsert(p)
        \/ CloseReturn(p)
        \/ ReadConversations(p)
        \/ FormatContext(p)

SpecMemoryProcesses == Init /\ [][NextMemoryProcesses]_vars

(***************************************************************************)
(* The scaffold generator, run in folders that already hold some of the    *)
(* paths: a file of FILES with somebody's text in it, a parent directory,  *)
(* or a regular file that has the name of a parent directory.              *)
(***************************************************************************)
WriteFiles ==
    LET r == write_files(fs)
    IN  /\ fs' = r.fs
        /\ last_op' = "write_files"
        /\ last_par' = <<>>
        /\ last_raised' = r.raised
        /\ last_ret' = <<>>
        /\ UNCHANGED <<tables, journals, playlists, agent_responses,
                       sqlite_sequence, clock, procs, write_lock, done>>

\* What lies at path p when it is of kind k.
Node(k, p) ==
    IF k = "absent" THEN Absent ELSE IF k = "dir" THEN Dir
    ELSE File(UserText(p))

\* A folder the generator may be started in: nothing lies below a name
\* that is not a directory.
Folders ==
    {[p \in FilePaths \cup ParentPaths |->
         IF p \in FilePaths THEN Node(k[1][p], p) ELSE Node(k[2][p], p)] :
       k \in {c \in [FilePaths -> {"absent", "file"}] \X
                     [ParentPaths -> {"absent", "dir", "file"}] :
                \A p \in FilePaths :
                    c[1][p] = "file"
                    => (ParentOf(p) = ROOT \/ c[2][ParentOf(p)] = "dir")}}

InitScaffold == InitStore /\ fs \in Folders

NextScaffold == WriteFiles

SpecScaffold == InitScaffold /\ [][NextScaffold]_vars

(***************************************************************************)
(* Properties.  OwnerTurns(a) is the append history of owner a: the table  *)
(* keeps its rows in the order they were inserted.                         *)
(***************************************************************************)
OwnerTurns(agent) == SelectSeq(agent_responses, LAMBDA r : r.agent = agent)

\* the last m elements of s
LastOf(s, m) == SubSeq(s, Len(s) - m + 1, Len(s))

SameTurnTuple(row, turn) ==
    /\ row[1] = turn.id
    /\ row[2] = turn.user_message
    /\ row[3] = turn.agent_response
    /\ row[4] = turn.session_id
    /\ row[5] = turn.created_at

SameTurnDict(conv, turn) ==
    /\ conv.id = turn.id
    /\ conv.user_message = turn.user_message
    /\ conv.agent_response = turn.agent_response
    /\ conv.session_id = turn.session_id
    /\ conv.created_at = turn.created_at

\* C1: the recent-conversation read (get_agent_memory, and
\* get_recent_conversations on top of it) with a limit k >= 1 returns exactly
\* the last min(k, n) turns appended for that owner, oldest first, with
\* strictly increasing ids.
C1_RecentTurnsChronological ==
    (last_op \in {"get_agent_memory", "get_recent_conversations"}
     /\ last_par[2] >= 1)
    => LET T == OwnerTurns(last_par[1])
           m == Min(last_par[2], Len(T))
           W == LastOf(T, m)
       IN  /\ ~last_raised
           /\ Len(last_ret) = m
           /\ \A i \in 1..m :
                IF last_op = "get_agent_memory"
                THEN SameTurnTuple(last_ret[i], W[i])
                ELSE SameTurnDict(last_ret[i], W[i])
           /\ \A i \in 1..(m - 1) :
                IF last_op = "get_agent_memory"
                THEN last_ret[i][1] < last_ret[i + 1][1]
                ELSE last_ret[i].id < last_ret[i + 1].id

\* C1 witness: five turns of "A" with a turn of "B" among them, read with
\* limit 3: the third, fourth and fifth turn of "A", in that order.
C1_Witness ==
    /\ last_op = "get_agent_memory"
    /\ last_par = <<"A", 3>>
    /\ Len(OwnerTurns("A")) = 5
    /\ Len(OwnerTurns("B")) = 1
    /\ agent_responses[3].agent = "B"
    /\ Len(last_ret) = 3
    /\ last_ret[1][1] = OwnerTurns("A")[3].id
    /\ last_ret[3][1] = OwnerTurns("A")[5].id

\* C2 as stated: the recent-conversation read itself clamps its limit to
\* [1,10]: a limit above 10 returns what limit 10 returns, a limit of 0 or
\* below returns what limit 1 returns.
C2_ReadClampsLimit ==
    (last_op = "get_agent_memory" /\ ~last_raised)
    => /\ last_par[2] > 10
          => last_ret = get_agent_memory(DB, last_par[1], 10).ret
       /\ last_par[2] < 1
          => last_ret = get_agent_memory(DB, last_par[1], 1).ret

\* the limit after clamping to [1,10]
ClampedLimit(limit) == IF limit > 10 THEN 10 ELSE IF limit < 1 THEN 1 ELSE limit

\* C2 amended: the clamp to [1,10] is in the get_memory tool, not in the
\* read under it.  get_memory with any limit returns the last
\* min(clamp(limit), n) turns of its owner, and so with a limit above 10 what
\* it returns with 10 and with a limit of 0 or below what it returns with 1.
\* get_agent_memory and get_recent_conversations pass the limit to the query
\* as it is: 0 returns no turn, a negative limit returns every turn of the
\* owner, a limit above 10 returns up to that many.
C2_GetMemoryClampsLimit ==
    /\ (last_op = "get_memory")
       => LET T == OwnerTurns(last_par[1])
              k == ClampedLimit(last_par[2][2])
              m == Min(k, Len(T))
              W == LastOf(T, m)
          IN  /\ ~last_raised
              /\ last_ret.count = m
              /\ Len(last_ret.conversations) = m
              /\ \A i \in 1..m : SameTurnDict(last_ret.conversations[i], W[i])
              /\ last_ret = get_memory(DB, last_par[1], PyInt(k)).ret
    /\ (last_op \in {"get_agent_memory", "get_recent_conversations"})
       => LET n == Len(OwnerTurns(last_par[1]))
          IN  Len(last_ret) = IF last_par[2] < 0 THEN n
                              ELSE Min(last_par[2], n)

\* C2 witness: eleven turns of "A", get_memory(999) returns ten of them.
C2_Witness ==
    /\ last_op = "get_memory"
    /\ last_par = <<"A", PyInt(999)>>
    /\ Len(OwnerTurns("A")) = 11
    /\ last_ret.count = 10
    /\ last_ret.conversations[1].id = OwnerTurns("A")[2].id

\* the text format_memory_for_context returns for an empty history
NoHistoryText ==
    <<"N","o"," ","p","r","e","v","i","o","u","s"," ","c","o","n","v","e","r",
      "s","a","t","i","o","n"," ","h","i","s","t","o","r","y",".">>

\* C7: format_memory_for_context for an owner with no stored turn returns
\* the sentinel "No previous conversation history." for every limit, however
\* many turns other owners have; it does not raise and the text is not empty.
C7_NoHistorySentinel ==
    (last_op = "format_memory_for_context"
     /\ OwnerTurns(last_par[1]) = <<>>)
    => /\ ~last_raised
       /\ last_ret = NoHistoryText
       /\ last_ret # <<>>

\* C7 witness: owner "C" has no turn while "A" and "B" have some, and the
\* limit is one the query does not bound by.
C7_Witness ==
    /\ last_op = "format_memory_for_context"
    /\ last_par = <<"C", -1>>
    /\ Len(OwnerTurns("A")) >= 2
    /\ Len(OwnerTurns("B")) >= 1
    /\ last_ret = NoHistoryText

\* C3: get_journals_by_agent(A, limit) with limit the number of journal
\* rows of all owners returns exactly the rows appended for A: as many as
\* were appended for A, each with agent equal to A, by strictly decreasing id.
C3_JournalsByOwner ==
    (last_op = "get_journals_by_agent" /\ last_par[2] = Len(journals))
    => LET mine == SelectSeq(journals, LAMBDA r : r.agent = last_par[1])
       IN  /\ ~last_raised
           /\ Len(last_ret) = Len(mine)
           /\ \A i \in 1..Len(last_ret) : last_ret[i][2] = last_par[1]
           /\ \A i \in 1..(Len(last_ret) - 1) :
                last_ret[i][1] > last_ret[i + 1][1]
           /\ {last_ret[i][1] : i \in 1..Len(last_ret)}
              = {mine[i].id : i \in 1..Len(mine)}

\* C3 witness: two rows of "A" around a row of the owner "a", all three
\* asked for.
C3_Witness ==
    /\ last_op = "get_journals_by_agent"
    /\ last_par = <<"A", 3>>
    /\ Len(journals) = 3
    /\ journals[2].agent = "a"
    /\ Len(last_ret) = 2
    /\ last_ret[1][1] = 3
    /\ last_ret[2][1] = 1

\* C4: search_journals(term) returns only rows in which term occurs as a
\* literal substring of the entry text or of the serialised tags, newest
\* first, and returns the empty sequence, not an error, when none matches.
C4_SearchLiteralSubstring ==
    (last_op = "search_journals")
    => /\ ~last_raised
       /\ \A i \in 1..Len(last_ret) :
            \/ Contains(last_par[1], last_ret[i][3])
            \/ Contains(last_par[1], last_ret[i][4])
       /\ \A i \in 1..(Len(last_ret) - 1) :
            last_ret[i][1] > last_ret[i + 1][1]

\* needle occurs in hay when ASCII letter case is ignored
ContainsFold(needle, hay) == Contains(LowerStr(needle), LowerStr(hay))

\* C5 as stated: matching is case-sensitive, so a row that holds the term
\* only in another letter case is not returned.
C5_SearchCaseSensitive ==
    (last_op = "search_journals" /\ ~last_raised)
    => \A i \in 1..Len(last_ret) :
         ~ /\ ~Contains(last_par[1], last_ret[i][3])
           /\ ~Contains(last_par[1], last_ret[i][4])
           /\ \/ ContainsFold(last_par[1], last_ret[i][3])
              \/ ContainsFold(last_par[1], last_ret[i][4])

\* C5 amended: matching ignores ASCII letter case.  A row whose entry text
\* or serialised tags hold the term in any letter case matches, and is
\* returned unless `limit` newer matching rows fill the result.
C5_SearchFoldsCase ==
    (last_op = "search_journals")
    => /\ ~last_raised
       /\ \A k \in 1..Len(journals) :
            (\/ ContainsFold(last_par[1], journals[k].entry)
             \/ ContainsFold(last_par[1], journals[k].tags))
            => \/ \E i \in 1..Len(last_ret) : last_ret[i][1] = journals[k].id
               \/ /\ Len(last_ret) = last_par[2]
                  /\ \A i \in 1..Len(last_ret) :
                        last_ret[i][1] > journals[k].id

\* C5 witness: the term "AB" returns the row whose entry is "ab" and whose
\* tags are absent.
C5_Witness ==
    /\ last_op = "search_journals"
    /\ last_par[1] = <<"A","B">>
    /\ \E i \in 1..Len(last_ret) :
         /\ last_ret[i][3] = <<"a","b">>
         /\ last_ret[i][4] = <<"n","u","l","l">>

\* C6 as stated: save_playlist(name, items) and at once list_playlists(1)
\* returns one playlist whose name is name and whose items are the sequence
\* that was saved.
C6_PlaylistRoundTripRaw ==
    [][(last_op = "save_playlist" /\ ~last_raised
        /\ last_op' = "list_playlists" /\ last_par' = <<1>>)
       => /\ ~last_raised'
          /\ Len(last_ret') = 1
          /\ last_ret'[1][2] = last_par[1]
          /\ last_ret'[1][3] = last_par[2]]_vars

\* C6 amended: save_playlist(name, items) and at once list_playlists(1)
\* returns one playlist, the one just saved, whose name is name and whose
\* items column is the JSON text of the saved sequence: decoded, it equals
\* the saved sequence, same values in the same order.
C6_PlaylistRoundTripDecoded ==
    [][(last_op = "save_playlist" /\ ~last_raised
        /\ last_op' = "list_playlists" /\ last_par' = <<1>>)
       => /\ ~last_raised'
          /\ Len(last_ret') = 1
          /\ last_ret'[1][2] = last_par[1]
          /\ JsonLoadsList(last_ret'[1][3]) = last_par[2]]_vars

\* C6 witness: two playlists of different names; list_playlists(1) returns
\* the second, whose items hold a quote, a comma and a backslash.
C6_Witness ==
    /\ last_op = "list_playlists"
    /\ last_par = <<1>>
    /\ Len(playlists) = 2
    /\ playlists[1].name # playlists[2].name
    /\ Len(last_ret) = 1
    /\ last_ret[1][1] = playlists[2].id
    /\ JsonLoadsList(last_ret[1][3])
       = << <<"b","\"",","," ","\\">>, <<"a">> >>

IsPrefix(s, t) == Len(s) <= Len(t) /\ SubSeq(t, 1, Len(s)) = s

\* C8: init_db is idempotent.  Called again, at once or after records
\* exist, it raises no error, leaves the records and the key counters of
\* the three tables as they were, and leaves the schema as one call made it.
C8_InitDbIdempotent ==
    [][(last_op' = "init_db")
       => /\ ~last_raised'
          /\ journals' = journals
          /\ playlists' = playlists
          /\ agent_responses' = agent_responses
          /\ sqlite_sequence' = sqlite_sequence
          /\ tables' = AllTables
          /\ (tables = AllTables => tables' = tables)]_vars

\* C8 witness: init_db has returned with records in all three tables.
C8_Witness ==
    /\ last_op = "init_db"
    /\ ~last_raised
    /\ journals # <<>>
    /\ playlists # <<>>
    /\ agent_responses # <<>>

\* C9: in each table the ids are unique and every append got an id above
\* all ids assigned before it in that table: id order is append order.
C9_IdsUniqueIncreasing ==
    \A t \in AllTables :
        /\ \A i, j \in 1..Len(DB[t]) :
               i < j => DB[t][i].id < DB[t][j].id
        /\ \A i \in 1..Len(DB[t]) :
               DB[t][i].id >= 1 /\ DB[t][i].id <= sqlite_sequence[t]

\* C9 witness: three appends to one table.
C9_Witness ==
    /\ Len(journals) = 3
    /\ journals[1].id < journals[2].id
    /\ journals[2].id < journals[3].id

\* C10: the log is append-only.  No step changes or removes a record, and
\* update_task_status(task_id, new_status) appends one journal row of owner
\* project_manager whose text names the task id, changing nothing else.
C10_AppendOnly ==
    [][/\ IsPrefix(journals, journals')
       /\ IsPrefix(playlists, playlists')
       /\ IsPrefix(agent_responses, agent_responses')
       /\ (last_op' = "update_task_status")
          => /\ ~last_raised'
             /\ Len(journals') = Len(journals) + 1
             /\ journals'[Len(journals')].agent = "project_manager"
             /\ Contains(<<"T","a","s","k"," ","I","D"," ">>
                         \o IntToStr(last_par'[1]) \o <<" ">>,
                         journals'[Len(journals')].entry)
             /\ playlists' = playlists
             /\ agent_responses' = agent_responses]_vars

\* C10 witness: task 1 was added as pending and then its status updated:
\* row 1 still reads pending and a later row names task 1.
C10_Witness ==
    /\ last_op = "update_task_status"
    /\ last_par[1] = 1
    /\ Len(journals) >= 2
    /\ journals[1].id = 1
    /\ Contains(<<"T","A","S","K",":"," ","f","i","x">>, journals[1].entry)
    /\ Contains(<<"S","T","A","T","U","S",":"," ","p","e","n","d","i","n","g">>,
                journals[1].entry)
    /\ Contains(<<"T","a","s","k"," ","I","D"," ","1"," ">>,
                journals[Len(journals)].entry)

\* C13: get_memory(limit) returns a mapping with status "success" and the
\* fields conversations, count and formatted_context; count is the length
\* of conversations and at most the clamped limit; every conversation
\* carries the user_message, agent_response, session_id and created_at of a
\* stored turn of that owner.
C13_GetMemoryResult ==
    (last_op = "get_memory")
    => /\ ~last_raised
       /\ DOMAIN last_ret
          = {"status", "conversations", "count", "formatted_context"}
       /\ last_ret.status = "success"
       /\ last_ret.count = Len(last_ret.conversations)
       /\ last_ret.count <= ClampedLimit(last_par[2][2])
       /\ \A i \in 1..Len(last_ret.conversations) :
            \E k \in 1..Len(agent_responses) :
                /\ agent_responses[k].agent = last_par[1]
                /\ SameTurnDict(last_ret.conversations[i], agent_responses[k])

\* C13 witness: four turns of "A" and one of "B"; get_memory of "A" with
\* limit 3 returns count 3 and the text and session of a turn of "A".
C13_Witness ==
    /\ last_op = "get_memory"
    /\ last_par = <<"A", PyInt(3)>>
    /\ Len(OwnerTurns("A")) = 4
    /\ Len(OwnerTurns("B")) = 1
    /\ last_ret.status = "success"
    /\ last_ret.count = 3
    /\ last_ret.conversations[3].user_message = <<"h","i">>
    /\ last_ret.conversations[3].agent_response = <<"y","o">>
    /\ last_ret.conversations[3].session_id = Some(<<"s">>)

\* the ids of the turns a memory read returned
ReturnedIds(op, ret) ==
    IF op = "get_agent_memory" THEN {ret[i][1] : i \in 1..Len(ret)}
    ELSE IF op = "get_recent_conversations"
    THEN {ret[i].id : i \in 1..Len(ret)}
    ELSE {ret.conversations[i].id : i \in 1..Len(ret.conversations)}

MemoryOwners == {"A", "B", "C"}

\* C14: each agent has its own conversation history.  A memory read for an
\* owner returns only turns appended for that owner, and appending a turn
\* for one owner leaves the result of every memory read for every other
\* owner as it was (reads with the limits -1 and 3).
C14_SeparateHistories ==
    [][/\ (last_op' \in {"get_agent_memory", "get_recent_conversations",
                         "get_memory"})
          => \A id \in ReturnedIds(last_op', last_ret') :
                \E k \in 1..Len(agent_responses') :
                    /\ agent_responses'[k].id = id
                    /\ agent_responses'[k].agent = last_par'[1]
       /\ (last_op' = "save_agent_response")
          => \A a \in MemoryOwners \ {last_par'[1]} :
             \A limit \in {-1, 3} :
                /\ get_agent_memory(DB', a, limit).ret
                   = get_agent_memory(DB, a, limit).ret
                /\ get_recent_conversations(DB', a, limit).ret
                   = get_recent_conversations(DB, a, limit).ret
                /\ format_memory_for_context(DB', a, limit).ret
                   = format_memory_for_context(DB, a, limit).ret
                /\ get_memory(DB', a, PyInt(limit)).ret
                   = get_memory(DB, a, PyInt(limit)).ret]_vars

\* C14 witness: "A" has two turns, then a turn is appended for "B"; a read
\* for "A" would still return the two turns of "A".
C14_Witness ==
    /\ last_op = "save_agent_response"
    /\ last_par[1] = "B"
    /\ ~last_raised
    /\ Len(OwnerTurns("A")) = 2
    /\ Len(OwnerTurns("B")) = 1
    /\ agent_responses[3].agent = "B"
    /\ Len(get_agent_memory(DB, "A", 3).ret) = 2
    /\ Len(get_agent_memory(DB, "B", 3).ret) = 1

\* the table a listing reads
ListedTable(op) == IF op = "list_journals" THEN journals ELSE playlists

\* C16: list_journals(limit) and list_playlists(limit) with a positive
\* limit return at most limit rows (min(limit, n) of the n stored), in
\* strictly descending id order, and the rows returned are stored rows with
\* the highest ids: every row left out has an id below every row returned.
C16_ListNewestFirst ==
    (last_op \in {"list_journals", "list_playlists"} /\ last_par[1] >= 1)
    => LET T == ListedTable(last_op)
           ids == {last_ret[i][1] : i \in 1..Len(last_ret)}
       IN  /\ ~last_raised
           /\ Len(last_ret) = Min(last_par[1], Len(T))
           /\ \A i \in 1..(Len(last_ret) - 1) :
                last_ret[i][1] > last_ret[i + 1][1]
           /\ \A i \in 1..Len(last_ret) :
                \E k \in 1..Len(T) :
                    IF last_op = "list_journals"
                    THEN last_ret[i] = JournalTuple(T[k])
                    ELSE last_ret[i] = PlaylistTuple(T[k])
           /\ \A k \in 1..Len(T) :
                T[k].id \notin ids => \A x \in ids : T[k].id < x

\* C16 witness: three journals listed with limit 2: the rows with ids 3
\* and 2, in that order, and the row with id 1 left out.
C16_Witness ==
    /\ last_op = "list_journals"
    /\ last_par = <<2>>
    /\ Len(journals) = 3
    /\ Len(last_ret) = 2
    /\ last_ret[1][1] = 3
    /\ last_ret[2][1] = 2

JournalWrites == {"save_journal", "add_task", "update_task_status"}

WriteOps == JournalWrites \cup {"save_playlist", "save_agent_response"}

ReadOps ==
    {"list_journals", "get_journals_by_agent", "search_journals",
     "list_playlists", "get_agent_memory", "get_recent_conversations",
     "format_memory_for_context", "get_memory"}

\* the table an append goes to
WriteTable(op) ==
    IF op \in JournalWrites THEN "journals"
    ELSE IF op = "save_playlist" THEN "playlists"
    ELSE "agent_responses"

\* C18: each successful save (save_journal, save_playlist,
\* save_agent_response, and the tools that save through them) adds exactly
\* one record, with a new id and the content it was given, to its own
\* table and leaves the other two tables as they were, also when the same
\* content is already stored; the read operations add no record.
C18_SaveAddsOneRecord ==
    [][/\ (last_op' \in WriteOps /\ ~last_raised')
          => \A t \in AllTables :
                IF t = WriteTable(last_op')
                THEN /\ Len(DB'[t]) = Len(DB[t]) + 1
                     /\ SubSeq(DB'[t], 1, Len(DB[t])) = DB[t]
                     /\ \A k \in 1..Len(DB[t]) :
                            DB[t][k].id # DB'[t][Len(DB'[t])].id
                ELSE DB'[t] = DB[t]
       /\ (last_op' = "save_journal" /\ ~last_raised')
          => LET row == journals'[Len(journals')]
             IN  /\ row.agent = last_par'[1]
                 /\ row.entry = last_par'[2]
                 /\ row.tags = JsonDumps(last_par'[3])
       /\ (last_op' = "save_playlist" /\ ~last_raised')
          => LET row == playlists'[Len(playlists')]
             IN  /\ row.name = last_par'[1]
                 /\ row.items = JsonDumpsList(last_par'[2])
       /\ (last_op' = "save_agent_response" /\ ~last_raised')
          => LET row == agent_responses'[Len(agent_responses')]
             IN  /\ row.agent = last_par'[1]
                 /\ row.user_message = last_par'[2]
                 /\ row.agent_response = last_par'[3]
                 /\ row.session_id = last_par'[4]
       /\ (last_op' \in ReadOps)
          => /\ journals' = journals
             /\ playlists' = playlists
             /\ agent_responses' = agent_responses]_vars

\* C18 witness: the same journal content saved twice: two records with the
\* same owner, text and tags and different ids.
C18_Witness ==
    /\ last_op = "save_journal"
    /\ ~last_raised
    /\ Len(journals) = 2
    /\ journals[1].agent = journals[2].agent
    /\ journals[1].entry = journals[2].entry
    /\ journals[1].tags = journals[2].tags
    /\ journals[1].id # journals[2].id
    /\ playlists = <<>>
    /\ agent_responses = <<>>

\* the upper end of the range a tool clamps its limit to
LimitRangeMax(op) ==
    IF op = "get_memory" THEN 10
    ELSE IF op = "get_coding_history" THEN 50
    ELSE 100

\* C17 as stated: a tool function that takes a limit (get_memory,
\* list_tasks, get_coding_history) does not reject a limit that is no
\* number: it returns a result, computed with a limit inside its range.
C17_MalformedLimitCoerced ==
    (last_op \in {"get_memory", "list_tasks", "get_coding_history"})
    => /\ ~last_raised
       /\ last_ret.status = "success"
       /\ last_ret.count <= LimitRangeMax(last_op)

\* journals[k] is a task: a row add_task wrote
IsTaskRow(k) ==
    /\ journals[k].agent = "project_manager"
    /\ Contains(<<"T","A","S","K",":"," ">>, journals[k].entry)
    /\ ~Contains(<<"T","A","S","K","_","U","P","D","A","T","E",":">>,
                 journals[k].entry)

\* update_task_status(id, s) was called: a row records it
UpdatedTo(id, s) ==
    \E k \in 1..Len(journals) :
        /\ journals[k].agent = "project_manager"
        /\ Contains(<<"T","a","s","k"," ","I","D"," ">> \o IntToStr(id)
                    \o <<" ","s","t","a","t","u","s"," ","c","h","a","n",
                         "g","e","d"," ","t","o"," ">> \o s,
                    journals[k].entry)

\* C19 as stated: list_tasks lists tasks by status.  For a task among the
\* rows list_tasks reads: once update_task_status(task_id, s) was called
\* for it, list_tasks(status=s) includes it and, for s other than pending,
\* list_tasks(status="pending") does not; list_tasks(status="all")
\* includes every task among the rows read.
C19_ListTasksByStatus ==
    (last_op = "list_tasks" /\ ~last_raised)
    => LET l      == Max(1, Min(100, int(last_par[2]).val))
           read   == {k \in 1..Len(journals) : k > Len(journals) - l}
           listed == {last_ret.tasks[i].id : i \in 1..Len(last_ret.tasks)}
       IN  \A k \in read :
              IsTaskRow(k)
              => /\ last_par[1] = StrAll => journals[k].id \in listed
                 /\ \A s \in {StrDone} :
                      UpdatedTo(journals[k].id, s)
                      => /\ last_par[1] = s => journals[k].id \in listed
                         /\ last_par[1] = StrPending
                            => journals[k].id \notin listed

\* the tool functions that touch the store
ToolOps ==
    {"add_task", "update_task_status", "journal", "make_playlist",
     "save_code_snippet", "get_coding_history", "get_memory"}

\* C11 as stated: a call of a tool function that touches the store ends,
\* also when the storage layer fails during it, by returning a mapping
\* with a status field, never by raising to its caller.
C11_ToolsReturnStatus ==
    (last_op \in ToolOps)
    => /\ ~last_raised
       /\ "status" \in DOMAIN last_ret

\* C12 as stated: every write operation (save_journal, save_playlist,
\* save_agent_response) has released every connection it opened when it
\* returns or raises, also when its insert or its commit fails.
C12_ConnectionsReleased ==
    \A i \in 1..Len(done) :
        done[i].op \in {"save_journal", "save_playlist",
                        "save_agent_response"}
        => done[i].open = 0

\* process p is past init_db in its call
PastInit(p) == procs[p].pc \in {"insert", "commit", "close"}

\* C15: init_db is safe to race.  With processes running init_db at the
\* same time, alone or as the first step of a store operation, on a file
\* with no tables: no call fails because a table already exists, no table
\* and no stored record is ever lost, and once a call is past its init_db
\* all three tables exist.
C15_InitDbSafeToRace ==
    [][/\ \A i \in 1..Len(done') : done'[i].error # "table already exists"
       /\ tables \subseteq tables'
       /\ IsPrefix(journals, journals')
       /\ IsPrefix(playlists, playlists')
       /\ IsPrefix(agent_responses, agent_responses')
       /\ ((\E p \in Procs : PastInit(p)') \/ done' # <<>>)
          => tables' = AllTables]_vars

\* C15 witness: two processes ran init_db on a file with no tables, the
\* second beginning before the first had returned; both returned without
\* an error, all three tables exist, and a save made afterwards found its
\* table and stored a record.
C15_Witness ==
    /\ Len(done) = 3
    /\ \E i, j \in 1..3 :
          /\ i < j
          /\ done[i].op = "init_db" /\ done[j].op = "init_db"
          /\ done[i].proc # done[j].proc
          /\ done[i].began = 0 /\ done[j].began = 0
          /\ ~done[i].raised /\ ~done[j].raised
    /\ tables = AllTables
    /\ Len(journals) = 1

\* the ids a full read of table t returns
ReadIds(t) ==
    IF t = "journals"
    THEN LET r == list_journals(DB, 20).ret
         IN  {r[i][1] : i \in 1..Len(r)}
    ELSE IF t = "playlists"
    THEN LET r == list_playlists(DB, 20).ret
         IN  {r[i][1] : i \in 1..Len(r)}
    ELSE UNION {LET r == get_agent_memory(DB, a, 20).ret
                IN  {r[i][1] : i \in 1..Len(r)} : a \in MemoryOwners}

\* the calls that ended by returning and appended to table t
Acknowledged(t) ==
    {i \in 1..Len(done) : ~done[i].raised /\ done[i].table = t}

\* C20: no acknowledged append is lost under contention.  With processes
\* appending at the same time, a call that raised has added nothing and a
\* call that returned has its record, under its own id and with its
\* content, in the table and in every later read; no two records of a
\* table have the same id, and save_journal and save_agent_response
\* return {"status": "ok"}.
C20_AcknowledgedAppendsKept ==
    /\ \A t \in AllTables :
          /\ \A i \in Acknowledged(t) :
                /\ \E k \in 1..Len(DB[t]) : DB[t][k] = done[i].row
                /\ done[i].row.id \in ReadIds(t)
          /\ \A i, j \in Acknowledged(t) :
                i # j => done[i].row.id # done[j].row.id
          /\ \A k1, k2 \in 1..Len(DB[t]) :
                k1 # k2 => DB[t][k1].id # DB[t][k2].id
          /\ Len(DB[t])
             = Cardinality(Acknowledged(t))
               + Cardinality({p \in Procs : /\ procs[p].pc = "close"
                                            /\ procs[p].table = t})
    /\ \A i \in 1..Len(done) : done[i].raised => done[i].table = "none"
    /\ (last_op \in {"save_journal", "save_agent_response"} /\ ~last_raised)
       => last_ret = [status |-> "ok"]

\* C20 witness: three appends by two processes.  One found the file
\* locked and raised; the other two overlapped, returned, and their two
\* records are stored under different ids.
C20_Witness ==
    /\ Len(done) = 3
    /\ \E i \in 1..3 :
          /\ done[i].raised
          /\ done[i].error = "database is locked"
          /\ done[i].op = "save_journal"
    /\ \E i, j \in 1..3 :
          /\ i < j
          /\ done[j].began < i
          /\ done[i].proc # done[j].proc
          /\ ~done[i].raised /\ ~done[j].raised
          /\ done[i].op = "save_journal" /\ done[j].op = "save_journal"
          /\ done[i].row.id # done[j].row.id
    /\ Len(journals) = 2
    /\ journals[1].id = 1
    /\ journals[2].id = 2

\* C22 as stated: get_coding_history(limit=L) returns the
\* min(clamp(L,1,50), n) most recent journal entries of owner coding_agent,
\* newest first, n being the number of entries of that owner, whatever
\* other owners appended in between; count is the length of history.
C22_CodingHistoryOfOwner ==
    (last_op = "get_coding_history" /\ ~last_raised)
    => LET l == Max(1, Min(50, int(last_par[1]).val))
           T == SelectSeq(journals, LAMBDA r : r.agent = "coding_agent")
           m == Min(l, Len(T))
       IN  /\ last_ret.count = Len(last_ret.history)
           /\ Len(last_ret.history) = m
           /\ \A i \in 1..m :
                /\ last_ret.history[i].id = T[Len(T) - i + 1].id
                /\ last_ret.history[i].entry = T[Len(T) - i + 1].entry

\* the text format_memory_for_context makes of a list of conversations
Rendered(conversations) ==
    IF conversations = <<>> THEN NoHistory
    ELSE Join(<<"\n">>, <<HistoryHeader>> \o ContextParts(conversations))

\* the lines of text that begin with "User: "
UserLines(text) ==
    LET lines == Split(text, "\n")
    IN  {i \in 1..Len(lines) :
            IsPrefix(<<"U","s","e","r",":"," ">>, lines[i])}

\* C21 as stated: within one get_memory result formatted_context renders
\* exactly the turns listed in conversations, same turns in the same
\* order, with as many "User:" lines as count says, also when another
\* process appends a turn for the same owner while the call is running.
C21_ContextMatchesConversations ==
    (last_op = "get_memory" /\ ~last_raised)
    => /\ last_ret.formatted_context = Rendered(last_ret.conversations)
       /\ Cardinality(UserLines(last_ret.formatted_context)) = last_ret.count

\* The parent names of FILES that a regular file has taken in a folder.
Blocked(folder) == {p \in ParentPaths : folder[p].kind = "file"}

\* The entries of FILES write_files gets through in a folder: all of them,
\* or those before the first one whose parent name is taken by a file.
Through(folder) ==
    {i \in 1..Len(FILES) :
        \A j \in 1..i : FILES[j].parent \notin Blocked(folder)}

\* C23 as stated: a run of write_files leaves the content of every path of
\* FILES that exists unchanged, creates every path of FILES that does not
\* exist with the template content, and a second run changes nothing.
C23_MissingAlwaysCreated ==
    [][last_op' = "write_files"
       => /\ \A i \in 1..Len(FILES) :
                IF Exists(fs, FILES[i].relpath)
                THEN fs'[FILES[i].relpath] = fs[FILES[i].relpath]
                ELSE fs'[FILES[i].relpath] = File(FILES[i].content)
          /\ last_op = "write_files" => fs' = fs]_vars

\* C23 (amended): a run of write_files alters nothing that exists, files
\* and directories alike.  When no parent directory name of FILES is taken
\* by a regular file, the run returns and every path of FILES that did not
\* exist holds the template content; when one is, the run raises
\* FileExistsError at the first such entry of FILES, the missing paths
\* before it hold the template content, and the missing paths from it on
\* stay missing.  A second run changes nothing.
C23_ExistingKeptMissingCreated ==
    [][last_op' = "write_files"
       => /\ \A p \in FilePaths \cup ParentPaths :
                Exists(fs, p) => fs'[p] = fs[p]
          /\ last_raised' <=> Blocked(fs) # {}
          /\ \A i \in 1..Len(FILES) :
                ~Exists(fs, FILES[i].relpath)
                => fs'[FILES[i].relpath] =
                      IF i \in Through(fs) THEN File(FILES[i].content)
                      ELSE Absent
          /\ last_op = "write_files" => fs' = fs]_vars

\* A run has returned in a folder that held somebody's file at one path of
\* FILES and nothing at another: the first still holds that text, the
\* second the template.
C23_Witness ==
    /\ last_op = "write_files" /\ ~last_raised
    /\ \E p, q \in FilePaths :
          /\ fs[p] = File(UserText(p))
          /\ fs[q] = File(Template(q))

=============================================================================
